---- MODULE Spec2Model ----
(***************************************************************************)
(* A model of scripts/garmin_token_store.py (the token-store codec) and of *)
(* the token acquisition of scripts/sync_strava.py as its tests and the    *)
(* specification describe it.                                              *)
(*                                                                         *)
(* Representation.                                                         *)
(*  - An archive entry name (a Python str) is a sequence of tokens: the    *)
(*    separators "/" and "\\", and maximal separator-free segments ("a",   *)
(*    "..", "oauth1_token.json").  Because segments are maximal, the       *)
(*    str operations of the code (replace, startswith, in, ==) are the     *)
(*    corresponding operations on token sequences.                         *)
(*  - A filesystem path is a sequence of components; a component is a      *)
(*    non-empty token sequence without "/" (POSIX allows "\\" in a file    *)
(*    name).  The root is <<>>.                                            *)
(*  - The filesystem is a function from the existing paths to nodes.       *)
(*  - A byte string is a record telling what the bytes are: a zip archive  *)
(*    (its members, every member readable), the UTF-8 JSON text of a       *)
(*    value, or bytes that are neither.                                    *)
(***************************************************************************)
EXTENDS Integers, Sequences, FiniteSets, TLC

VARIABLES
    fs,         \* the filesystem: path -> node
    pc,         \* "idle" | "extract" | "done": position of the current call
    call,       \* the operation in progress or finished, with its arguments
    pre,        \* the filesystem when the call started
    idx,        \* _safe_extract_zip: index of the member being processed
    result,     \* "none" | "returned" | "ValueError" | "OSError" | "RuntimeError"
    ret,        \* the path returned by write_token_store_bytes (<<>>: none)
    secret,     \* the text stored as the secret (output of the encoder)
    tokenBytes, \* the bytes decoded from the secret
    auth        \* state of the token acquisition (sync_strava)

vars == <<fs, pc, call, pre, idx, result, ret, secret, tokenBytes, auth>>

-----------------------------------------------------------------------------
(* Bounds of the model. *)

MaxMembers == 2

-----------------------------------------------------------------------------
(* Strings as token sequences. *)

SLASH == "/"
BSLASH == "\\"

OAUTH1_TOKEN_FILENAME == <<"oauth1_token.json">>
OAUTH2_TOKEN_FILENAME == <<"oauth2_token.json">>

\* str.replace("\\", "/")
ReplaceBackslash(s) == [i \in 1..Len(s) |-> IF s[i] = BSLASH THEN SLASH ELSE s[i]]

\* str.startswith(p)
StartsWith(s, p) == Len(s) >= Len(p) /\ SubSeq(s, 1, Len(p)) = p

\* p in s
Contains(s, p) ==
    \E i \in 1..(Len(s) - Len(p) + 1) : SubSeq(s, i, i + Len(p) - 1) = p

\* str.split("/"): the components of a name, empty ones included
RECURSIVE SplitFrom(_, _, _)
SplitFrom(s, i, cur) ==
    IF i > Len(s) THEN <<cur>>
    ELSE IF s[i] = SLASH THEN <<cur>> \o SplitFrom(s, i + 1, <<>>)
    ELSE SplitFrom(s, i + 1, Append(cur, s[i]))

SplitSlash(s) == SplitFrom(s, 1, <<>>)

\* os.path.normpath of an absolute path given by its components: empty and "."
\* components are dropped, ".." removes the component before it (none at the root)
RECURSIVE NormFrom(_, _, _)
NormFrom(cs, i, acc) ==
    IF i > Len(cs) THEN acc
    ELSE IF cs[i] = <<>> \/ cs[i] = <<".">> THEN NormFrom(cs, i + 1, acc)
    ELSE IF cs[i] = <<"..">>
         THEN NormFrom(cs, i + 1,
                       IF acc = <<>> THEN acc ELSE SubSeq(acc, 1, Len(acc) - 1))
    ELSE NormFrom(cs, i + 1, Append(acc, cs[i]))

\* os.path.abspath(os.path.join(base, name)): an absolute name replaces base
AbsJoin(base, name) ==
    IF StartsWith(name, <<SLASH>>) THEN NormFrom(SplitSlash(name), 1, <<>>)
    ELSE NormFrom(base \o SplitSlash(name), 1, <<>>)

\* os.path.join(directory, filename) for a single component
Join(dir, comp) == Append(dir, comp)

\* os.path.dirname of an absolute normalized path
Dirname(p) == IF p = <<>> THEN p ELSE SubSeq(p, 1, Len(p) - 1)

\* q is p or below p
IsPrefix(p, q) == Len(p) <= Len(q) /\ SubSeq(q, 1, Len(p)) = p

\* os.path.relpath(full, directory) for full below directory, as a name
RECURSIVE JoinComps(_, _)
JoinComps(cs, i) ==
    IF i > Len(cs) THEN <<>>
    ELSE IF i = Len(cs) THEN cs[i]
    ELSE cs[i] \o <<SLASH>> \o JoinComps(cs, i + 1)

RelPath(full, directory) == JoinComps(SubSeq(full, Len(directory) + 1, Len(full)), 1)

-----------------------------------------------------------------------------
(* JSON values and byte strings. *)

NoFields == [k \in {} |-> 0]

JStr(s) == [ty |-> "str", s |-> s, fields |-> NoFields]
JObj(f) == [ty |-> "obj", s |-> "", fields |-> f]
JList == [ty |-> "list", s |-> "", fields |-> NoFields]
JNull == [ty |-> "null", s |-> "", fields |-> NoFields]

\* isinstance(v, dict)
IsDict(v) == v.ty = "obj"
\* key in payload
HasKey(v, k) == k \in DOMAIN v.fields
\* payload.get(key): None when the key is missing
Get(v, k) == IF HasKey(v, k) THEN v.fields[k] ELSE JNull

NoBytes == [t |-> "none", members |-> <<>>, json |-> JNull, raw |-> 0]
ZipBytes(ms) == [t |-> "zip", members |-> ms, json |-> JNull, raw |-> 0]
RawBytes(n) == [t |-> "raw", members |-> <<>>, json |-> JNull, raw |-> n]

\* json.dump(payload, f): the text written
JsonDump(v) == [t |-> "json", members |-> <<>>, json |-> v, raw |-> 0]

\* json.loads(token_bytes.decode("utf-8")): [ok, value]
JsonLoads(b) ==
    IF b.t = "json" THEN [ok |-> TRUE, value |-> b.json]
    ELSE [ok |-> FALSE, value |-> JNull]

\* zipfile.ZipFile(io.BytesIO(token_bytes)): BadZipFile unless the bytes are an archive
IsZip(b) == b.t = "zip"

-----------------------------------------------------------------------------
(* The filesystem. *)

DirNode == [kind |-> "dir", data |-> NoBytes]
FileNode(b) == [kind |-> "file", data |-> b]

Exists(f, p) == p \in DOMAIN f
\* os.path.isfile / os.path.isdir
IsFile(f, p) == Exists(f, p) /\ f[p].kind = "file"
IsDir(f, p) == Exists(f, p) /\ f[p].kind = "dir"

Prefixes(p) == {SubSeq(p, 1, n) : n \in 0..Len(p)}

\* os.makedirs(p, exist_ok=True): fails when p or an ancestor is a file, and
\* then creates nothing
MakeDirs(f, p) ==
    IF \E q \in Prefixes(p) : IsFile(f, q)
    THEN [fs |-> f, err |-> TRUE]
    ELSE [fs |-> [q \in DOMAIN f \cup Prefixes(p) |->
                     IF q \in DOMAIN f THEN f[q] ELSE DirNode],
          err |-> FALSE]

\* open(p, "w") and write b: fails on a directory or under a missing parent
WriteFile(f, p, b) ==
    IF IsDir(f, p) \/ ~IsDir(f, Dirname(p))
    THEN [fs |-> f, err |-> TRUE]
    ELSE [fs |-> [q \in DOMAIN f \cup {p} |-> IF q = p THEN FileNode(b) ELSE f[q]],
          err |-> FALSE]

\* os.remove(p) of a file, shutil.rmtree(p) of a directory
RemoveTree(f, p) == [q \in {q \in DOMAIN f : ~IsPrefix(p, q)} |-> f[q]]

\* what lies strictly below p, and what lies outside p
Below(f, p) == {q \in DOMAIN f : IsPrefix(p, q) /\ q # p}
Outside(f, p) == [q \in {q \in DOMAIN f : ~IsPrefix(p, q)} |-> f[q]]
Subtree(f, p) == [q \in {q \in DOMAIN f : IsPrefix(p, q)} |-> f[q]]

\* token_store_ready(directory)
token_store_ready(f, directory) ==
    /\ IsFile(f, Join(directory, OAUTH1_TOKEN_FILENAME))
    /\ IsFile(f, Join(directory, OAUTH2_TOKEN_FILENAME))

\* _write_json(path, payload)
write_json(f, p, v) == WriteFile(f, p, JsonDump(v))

\* A preparation that removes a file in the way but keeps a directory's contents.
clear_and_prepare_dir_merging(f, p) == MakeDirs(IF IsFile(f, p) THEN RemoveTree(f, p) ELSE f, p)

\* _clear_and_prepare_dir(path)
clear_and_prepare_dir(f, p) ==
    MakeDirs(IF IsFile(f, p) \/ IsDir(f, p) THEN RemoveTree(f, p) ELSE f, p)

-----------------------------------------------------------------------------
(* The places of the model's filesystem. *)

WorkDir == << <<"w">> >>
StorePath == Join(WorkDir, <<"store">>)
SourceDir == Join(WorkDir, <<"src">>)
LegacyPath == Join(WorkDir, <<"garth-session.json">>)

\* the working directory exists and is empty
BaseFs == [q \in Prefixes(WorkDir) |-> DirNode]

-----------------------------------------------------------------------------
(* _safe_extract_zip, one archive member at a time. *)

\* ZipInfo.is_dir(): the stored name ends with "/"
IsDirEntry(raw) == Len(raw) > 0 /\ raw[Len(raw)] = SLASH

\* destination = os.path.abspath(os.path.join(target_abs, normalized_name))
Destination(raw, target) == AbsJoin(target, ReplaceBackslash(raw))

\* the two name checks of an entry
RejectedByName(n) ==
    \/ StartsWith(n, <<SLASH>>)
    \/ StartsWith(n, <<"..", SLASH>>)
    \/ Contains(n, <<SLASH, "..", SLASH>>)
    \/ n = <<"..">>

\* destination != target_abs and not destination.startswith(target_abs + os.sep)
RejectedByDestination(dest, target) == dest # target /\ ~IsPrefix(target, dest)

\* A validation that looks at the stored name before its separators are
\* normalized, while the extraction uses the normalized one.
UnsafeEntryRawName(raw, target) ==
    \/ RejectedByName(raw)
    \/ RejectedByDestination(AbsJoin(target, raw), target)

\* an entry that makes _safe_extract_zip raise ValueError
UnsafeEntry(raw, target) ==
    \/ RejectedByName(ReplaceBackslash(raw))
    \/ RejectedByDestination(Destination(raw, target), target)

\* the effect of one member that passed the checks: [fs, err]
ExtractOne(f, member, target) ==
    LET destination == Destination(member.filename, target) IN
    IF IsDirEntry(member.filename)
    THEN MakeDirs(f, destination)
    ELSE LET made == MakeDirs(f, Dirname(destination)) IN
         IF made.err THEN made ELSE WriteFile(made.fs, destination, member.data)

-----------------------------------------------------------------------------
(* The legacy fallback of write_token_store_bytes. *)

WriteJsonIf(r, cond, p, v) == IF r.err \/ ~cond THEN r ELSE write_json(r.fs, p, v)

\* The nested rules alone (as in hydrate_token_store_from_legacy_file).
NestedRules(f, payload, directory) ==
    LET oauth1 == Get(payload, "oauth1_token")
        oauth2 == Get(payload, "oauth2_token")
        r1 == WriteJsonIf([fs |-> f, err |-> FALSE], IsDict(oauth1),
                          Join(directory, OAUTH1_TOKEN_FILENAME), oauth1)
    IN  WriteJsonIf(r1, IsDict(oauth2), Join(directory, OAUTH2_TOKEN_FILENAME), oauth2)

\* The flat rules skipped when the nested rule of the same side has fired.
LegacyRulesExclusive(f, payload, directory) ==
    LET r2 == NestedRules(f, payload, directory)
        r3 == WriteJsonIf(r2, /\ ~IsDict(Get(payload, "oauth1_token"))
                              /\ HasKey(payload, "oauth_token")
                              /\ HasKey(payload, "oauth_token_secret"),
                          Join(directory, OAUTH1_TOKEN_FILENAME), payload)
    IN  WriteJsonIf(r3, /\ ~IsDict(Get(payload, "oauth2_token"))
                        /\ HasKey(payload, "access_token"),
                    Join(directory, OAUTH2_TOKEN_FILENAME), payload)

\* The flat rules fire on a single key of the pair.
LegacyRulesAnyKey(f, payload, directory) ==
    LET r2 == NestedRules(f, payload, directory)
        r3 == WriteJsonIf(r2, \/ HasKey(payload, "oauth_token")
                              \/ HasKey(payload, "oauth_token_secret"),
                          Join(directory, OAUTH1_TOKEN_FILENAME), payload)
    IN  WriteJsonIf(r3, HasKey(payload, "access_token"),
                    Join(directory, OAUTH2_TOKEN_FILENAME), payload)

\* the four rules, in order
LegacyRules(f, payload, directory) ==
    LET r2 == NestedRules(f, payload, directory)
        r3 == WriteJsonIf(r2, /\ HasKey(payload, "oauth_token")
                              /\ HasKey(payload, "oauth_token_secret"),
                          Join(directory, OAUTH1_TOKEN_FILENAME), payload)
    IN  WriteJsonIf(r3, HasKey(payload, "access_token"),
                    Join(directory, OAUTH2_TOKEN_FILENAME), payload)

\* A fallback whose parse failure is not caught.
LegacyFallbackUncaught(f, bytes, directory) ==
    LET parsed == JsonLoads(bytes) IN
    IF ~parsed.ok THEN [fs |-> f, err |-> TRUE]
    ELSE IF IsDict(parsed.value) THEN LegacyRules(f, parsed.value, directory)
    ELSE [fs |-> f, err |-> FALSE]

\* lines 76-90: parse, and apply the rules to an object
LegacyFallback(f, bytes, directory) ==
    LET parsed == JsonLoads(bytes) IN
    IF parsed.ok /\ IsDict(parsed.value)
    THEN LegacyRules(f, parsed.value, directory)
    ELSE [fs |-> f, err |-> FALSE]

-----------------------------------------------------------------------------
(* The inputs of the model. *)

\* bytes that were in the store before a call: in no input
OldBytes == RawBytes(9)

\* entry names an archive may hold
EntryNames ==
    { OAUTH1_TOKEN_FILENAME,
      OAUTH2_TOKEN_FILENAME,
      <<"a">>,
      <<"a", SLASH>>,
      <<"a", SLASH, "b">>,
      <<"a", BSLASH, "b">>,
      <<"a", SLASH, "..">>,
      <<"a", SLASH, "..", SLASH, "b">>,
      <<>>,
      <<"..", SLASH, "evil">>,
      <<"..", BSLASH, "evil">>,
      <<SLASH, "evil">>,
      <<"a", SLASH, "..", SLASH, "..", SLASH, "evil">>,
      <<"..">>,
      <<".", SLASH, "..">> }

\* the archives: up to MaxMembers members; the i-th member's data is RawBytes(i),
\* so that the data tells which member wrote a file
Archives ==
    UNION { { ZipBytes([i \in 1..n |-> [filename |-> names[i], data |-> RawBytes(i)]]) :
                names \in [1..n -> EntryNames] } : n \in 0..MaxMembers }

Oauth1Obj == JObj([oauth_token |-> JStr("a"), oauth_token_secret |-> JStr("b")])
Oauth2Obj == JObj([access_token |-> JStr("c")])

\* the values a key of a legacy payload may have: "-" stands for a missing key
NestedChoices(obj) == {JNull, JStr("x"), obj}

LegacyKeys ==
    {"oauth1_token", "oauth2_token", "oauth_token", "oauth_token_secret", "access_token"}

\* the legacy payload objects: every combination of missing, non-object and
\* object-valued nested keys and of present and missing flat keys
LegacyObjects ==
    { JObj([k \in { k \in LegacyKeys :
                      \/ k = "oauth1_token" /\ n1 # JNull
                      \/ k = "oauth2_token" /\ n2 # JNull
                      \/ k \in flat } |->
               IF k = "oauth1_token" THEN n1
               ELSE IF k = "oauth2_token" THEN n2
               ELSE JStr(k)]) :
        n1 \in NestedChoices(Oauth1Obj), n2 \in NestedChoices(Oauth2Obj),
        flat \in SUBSET {"oauth_token", "oauth_token_secret", "access_token"} }

\* bytes that are no archive: JSON objects, JSON that is no object, and bytes
\* that are no JSON (or no UTF-8)
LegacyInputs ==
    {JsonDump(v) : v \in LegacyObjects} \cup {JsonDump(JList), JsonDump(JStr("x")), RawBytes(0)}

WriteInputs == Archives \cup LegacyInputs

\* the store before a call: absent, a file, an empty directory, a ready store,
\* a directory with a subdirectory
StoreBefore ==
    LET other == [q \in {Join(WorkDir, <<"other">>)} |-> FileNode(OldBytes)]
        base == other @@ BaseFs
        asFile == [q \in {StorePath} |-> FileNode(OldBytes)] @@ base
        asDir == [q \in {StorePath} |-> DirNode] @@ base
        ready == [q \in {Join(StorePath, OAUTH1_TOKEN_FILENAME),
                         Join(StorePath, OAUTH2_TOKEN_FILENAME)} |-> FileNode(OldBytes)]
                 @@ asDir
        deep == [q \in {Join(StorePath, <<"a">>)} |-> DirNode]
                @@ [q \in {Join(Join(StorePath, <<"a">>), <<"b">>),
                           Join(StorePath, <<"keep">>)} |-> FileNode(OldBytes)]
                @@ asDir
    IN  {base, asFile, asDir, ready, deep}

-----------------------------------------------------------------------------
(* Calls. *)

NoText == [t |-> "none", bytes |-> NoBytes]
NoCall == [op |-> "none", bytes |-> NoBytes, text |-> NoText, path |-> <<>>, dir |-> <<>>]
WriteCall(b, target) ==
    [op |-> "write", bytes |-> b, text |-> NoText, path |-> <<>>, dir |-> target]

\* a token cache; "" stands for a missing entry
TokenCache(access, expires, refresh) ==
    [access_token |-> access, expires_at |-> expires, refresh_token |-> refresh]
EmptyCache == TokenCache("", 0, "")

\* the token acquisition before it starts
AuthIdle ==
    [pc |-> "idle", cache |-> EmptyCache, configured |-> "", accepts |-> {},
     candidates |-> <<>>, ci |-> 0, tries |-> 0,
     calls |-> <<>>, responses |-> <<>>, saved |-> <<>>, token |-> "", error |-> ""]

\* write_token_store_bytes, lines 62-73 up to the first member, and lines 75-92
\* for bytes that are no archive
write_token_store_bytes(token_bytes, token_store_path) ==
    LET cleared == clear_and_prepare_dir(fs, token_store_path) IN
    /\ pc = "idle"
    /\ call' = WriteCall(token_bytes, token_store_path)
    /\ pre' = fs
    /\ IF cleared.err
       THEN /\ fs' = cleared.fs
            /\ pc' = "done" /\ result' = "OSError" /\ idx' = 0 /\ ret' = <<>>
       ELSE IF IsZip(token_bytes)
       THEN /\ fs' = cleared.fs
            /\ pc' = "extract" /\ result' = "none" /\ idx' = 1 /\ ret' = <<>>
       ELSE LET legacy == LegacyFallback(cleared.fs, token_bytes, token_store_path) IN
            /\ fs' = legacy.fs
            /\ pc' = "done" /\ idx' = 0
            /\ result' = IF legacy.err THEN "OSError" ELSE "returned"
            /\ ret' = IF legacy.err THEN <<>> ELSE token_store_path
    /\ UNCHANGED <<secret, tokenBytes, auth>>

\* _safe_extract_zip: the loop body for member idx
safe_extract_zip ==
    /\ pc = "extract"
    /\ idx <= Len(call.bytes.members)
    /\ LET member == call.bytes.members[idx]
           raw_name == member.filename
       IN  IF raw_name = <<>>
           THEN /\ idx' = idx + 1
                /\ UNCHANGED <<fs, pc, result>>
           ELSE IF UnsafeEntry(raw_name, call.dir)
           THEN /\ pc' = "done" /\ result' = "ValueError"
                /\ UNCHANGED <<fs, idx>>
           ELSE LET done == ExtractOne(fs, member, call.dir) IN
                /\ fs' = done.fs
                /\ IF done.err
                   THEN pc' = "done" /\ result' = "OSError" /\ idx' = idx
                   ELSE pc' = "extract" /\ result' = "none" /\ idx' = idx + 1
    /\ UNCHANGED <<call, pre, ret, secret, tokenBytes, auth>>

\* the archive is exhausted: extracted = True, return token_store_path
ExtractEnd ==
    /\ pc = "extract"
    /\ idx > Len(call.bytes.members)
    /\ pc' = "done" /\ result' = "returned" /\ ret' = call.dir
    /\ UNCHANGED <<fs, call, pre, idx, secret, tokenBytes, auth>>

WriteAny == \E b \in WriteInputs : write_token_store_bytes(b, StorePath)

Init ==
    /\ fs \in StoreBefore
    /\ pc = "idle" /\ call = NoCall /\ pre = fs /\ idx = 0
    /\ result = "none" /\ ret = <<>>
    /\ secret = NoText /\ tokenBytes = NoBytes /\ auth = AuthIdle

Next == WriteAny \/ safe_extract_zip \/ ExtractEnd

Spec == Init /\ [][Next]_vars

-----------------------------------------------------------------------------
(* encode_token_store_dir_as_zip_b64 and decode_token_store_b64. *)

\* The file names the source directory may hold, in the order of sorted():
\* by code point, "." < "\\" < "a" < "o" < "x".
SortedFileNames ==
    << <<"..", BSLASH, "a">>,
       <<"a">>,
       <<"a", BSLASH, "b">>,
       OAUTH1_TOKEN_FILENAME,
       OAUTH2_TOKEN_FILENAME,
       <<"x">> >>

SubDirName == <<"sub">>

\* sorted(files) of one directory
SortedFiles(f, root) == SelectSeq(SortedFileNames, LAMBDA c : IsFile(f, Join(root, c)))

\* os.walk(directory), top down: the files of the directory, then those of its
\* subdirectory; a missing directory yields nothing
WalkFiles(f, directory) ==
    LET paths(root) == [i \in 1..Len(SortedFiles(f, root)) |->
                           Join(root, SortedFiles(f, root)[i])]
    IN  IF ~IsDir(f, directory) THEN <<>>
        ELSE paths(directory) \o
             (IF IsDir(f, Join(directory, SubDirName))
              THEN paths(Join(directory, SubDirName)) ELSE <<>>)

\* An entry named by the file's base name alone.
ArcNameBaseName(full_path, directory) == full_path[Len(full_path)]

\* arcname = os.path.relpath(full_path, directory)
ArcName(full_path, directory) == RelPath(full_path, directory)

\* the archive written by lines 42-47
ArchiveOf(f, directory) ==
    LET files == WalkFiles(f, directory) IN
    ZipBytes([i \in 1..Len(files) |->
                 [filename |-> ArcName(files[i], directory), data |-> f[files[i]].data]])

\* zipfile closes an archive with its end-of-central-directory record
EndRecordSize == 22
\* the local and central headers of a member
MemberHeaderSize == 76

\* len(data): a lower bound of it, the headers alone
ArchiveSize(b) == EndRecordSize + MemberHeaderSize * Len(b.members)

\* base64.b64encode(data).decode("ascii")
B64Encode(b) == [t |-> "b64", bytes |-> b]
\* a text that is no base64
BadText == [t |-> "bad", bytes |-> NoBytes]
\* base64.b64decode(encoded, validate=True): [ok, bytes]
B64Decode(text) ==
    IF text.t = "b64" THEN [ok |-> TRUE, bytes |-> text.bytes]
    ELSE [ok |-> FALSE, bytes |-> NoBytes]

EncodeCall(directory) ==
    [op |-> "encode", bytes |-> NoBytes, text |-> NoText, path |-> <<>>, dir |-> directory]
DecodeCall(encoded) ==
    [op |-> "decode", bytes |-> NoBytes, text |-> encoded, path |-> <<>>, dir |-> <<>>]

\* encode_token_store_dir_as_zip_b64(directory)
encode_token_store_dir_as_zip_b64(directory) ==
    LET data == ArchiveOf(fs, directory) IN
    /\ pc = "idle" /\ call.op = "none"
    /\ call' = EncodeCall(directory)
    /\ pre' = fs
    /\ IF ArchiveSize(data) = 0
       THEN pc' = "done" /\ result' = "RuntimeError" /\ secret' = NoText
       ELSE pc' = "idle" /\ result' = "returned" /\ secret' = B64Encode(data)
    /\ UNCHANGED <<fs, idx, ret, tokenBytes, auth>>

\* decode_token_store_b64(encoded)
decode_token_store_b64(encoded) ==
    LET decoded == B64Decode(encoded) IN
    /\ pc = "idle" /\ call.op = "encode"
    /\ call' = DecodeCall(encoded)
    /\ pre' = fs
    /\ IF decoded.ok
       THEN pc' = "idle" /\ result' = "returned" /\ tokenBytes' = decoded.bytes
       ELSE pc' = "done" /\ result' = "ValueError" /\ tokenBytes' = NoBytes
    /\ UNCHANGED <<fs, idx, ret, secret, auth>>

\* the secret, or a damaged copy of it
DecodeSecret == \E encoded \in {secret, BadText} : decode_token_store_b64(encoded)

\* write_token_store_bytes(token_bytes, token_store) of the decoded bytes
WriteDecoded ==
    /\ call.op = "decode"
    /\ write_token_store_bytes(tokenBytes, StorePath)

\* the source directories: missing, or holding any of the candidate files
SourceFiles ==
    {Join(SourceDir, SortedFileNames[i]) : i \in 1..Len(SortedFileNames)}
        \cup {Join(Join(SourceDir, SubDirName), <<"x">>)}

SourceContent(p) ==
    IF p = Join(SourceDir, OAUTH1_TOKEN_FILENAME) THEN JsonDump(Oauth1Obj)
    ELSE IF p = Join(SourceDir, OAUTH2_TOKEN_FILENAME) THEN JsonDump(Oauth2Obj)
    ELSE RawBytes(Len(p[Len(p)]))

SourceBefore ==
    {BaseFs} \cup
    { LET made == MakeDirs(BaseFs, SourceDir).fs
          withSub == IF Join(Join(SourceDir, SubDirName), <<"x">>) \in files
                     THEN MakeDirs(made, Join(SourceDir, SubDirName)).fs ELSE made
      IN  [p \in files |-> FileNode(SourceContent(p))] @@ withSub :
        files \in SUBSET SourceFiles }

InitRoundTrip ==
    /\ fs \in SourceBefore
    /\ pc = "idle" /\ call = NoCall /\ pre = fs /\ idx = 0
    /\ result = "none" /\ ret = <<>>
    /\ secret = NoText /\ tokenBytes = NoBytes /\ auth = AuthIdle

NextRoundTrip ==
    \/ encode_token_store_dir_as_zip_b64(SourceDir)
    \/ DecodeSecret
    \/ WriteDecoded
    \/ safe_extract_zip
    \/ ExtractEnd

SpecRoundTrip == InitRoundTrip /\ [][NextRoundTrip]_vars

-----------------------------------------------------------------------------
(* hydrate_token_store_from_legacy_file. *)

\* the content of a file that open() refuses to read (no permission)
DeniedBytes == [t |-> "denied", members |-> <<>>, json |-> JNull, raw |-> 0]

\* open(path, "r", encoding="utf-8") and json.load(f): [ok, value]
JsonLoadFile(f, path) ==
    IF f[path].data.t = "denied" THEN [ok |-> FALSE, value |-> JNull]
    ELSE JsonLoads(f[path].data)

\* Both sub-objects written under the first file name.
HydrateRulesSameName(f, payload, directory) ==
    LET oauth1 == Get(payload, "oauth1_token")
        oauth2 == Get(payload, "oauth2_token")
        r1 == WriteJsonIf([fs |-> f, err |-> FALSE], IsDict(oauth1),
                          Join(directory, OAUTH1_TOKEN_FILENAME), oauth1)
    IN  WriteJsonIf(r1, IsDict(oauth2), Join(directory, OAUTH1_TOKEN_FILENAME), oauth2)

\* lines 32-37
HydrateRules(f, payload, directory) ==
    LET oauth1 == Get(payload, "oauth1_token")
        oauth2 == Get(payload, "oauth2_token")
        r1 == WriteJsonIf([fs |-> f, err |-> FALSE], IsDict(oauth1),
                          Join(directory, OAUTH1_TOKEN_FILENAME), oauth1)
    IN  WriteJsonIf(r1, IsDict(oauth2), Join(directory, OAUTH2_TOKEN_FILENAME), oauth2)

HydrateCall(path, directory) ==
    [op |-> "hydrate", bytes |-> NoBytes, text |-> NoText, path |-> path, dir |-> directory]

\* hydrate_token_store_from_legacy_file(path, directory)
hydrate_token_store_from_legacy_file(path, directory) ==
    /\ pc = "idle"
    /\ call' = HydrateCall(path, directory)
    /\ pre' = fs
    /\ pc' = "done"
    /\ IF ~IsFile(fs, path)
       THEN result' = "returned" /\ fs' = fs
       ELSE LET loaded == JsonLoadFile(fs, path) IN
            IF ~loaded.ok \/ ~IsDict(loaded.value)
            THEN result' = "returned" /\ fs' = fs
            ELSE LET written == HydrateRules(fs, loaded.value, directory) IN
                 /\ fs' = written.fs
                 /\ result' = IF written.err THEN "OSError" ELSE "returned"
    /\ UNCHANGED <<idx, ret, secret, tokenBytes, auth>>

\* the legacy file before the call: missing, a directory, unreadable, or a file
\* holding any of the legacy inputs or an archive
LegacyBefore ==
    {BaseFs, [q \in {LegacyPath} |-> DirNode] @@ BaseFs}
    \cup {[q \in {LegacyPath} |-> FileNode(b)] @@ BaseFs :
            b \in LegacyInputs \cup {DeniedBytes, ZipBytes(<<>>)}}

\* the directory before the call: missing, empty, a ready store, or one whose
\* first token path is taken by a directory
HydrateStoreBefore(base) ==
    LET asDir == [q \in {StorePath} |-> DirNode] @@ base
        ready == [q \in {Join(StorePath, OAUTH1_TOKEN_FILENAME),
                         Join(StorePath, OAUTH2_TOKEN_FILENAME)} |-> FileNode(OldBytes)]
                 @@ asDir
        taken == [q \in {Join(StorePath, OAUTH1_TOKEN_FILENAME)} |-> DirNode] @@ asDir
    IN  {base, asDir, ready, taken}

InitHydrate ==
    /\ fs \in UNION {HydrateStoreBefore(base) : base \in LegacyBefore}
    /\ pc = "idle" /\ call = NoCall /\ pre = fs /\ idx = 0
    /\ result = "none" /\ ret = <<>>
    /\ secret = NoText /\ tokenBytes = NoBytes /\ auth = AuthIdle

\* the store of the model, or the directory that holds the legacy file (as in
\* the test)
NextHydrate == \E directory \in {StorePath, WorkDir} : hydrate_token_store_from_legacy_file(LegacyPath, directory)

SpecHydrate == InitHydrate /\ [][NextHydrate]_vars

-----------------------------------------------------------------------------
(* Token acquisition: _get_access_token and _request_json_with_retry of      *)
(* sync_strava, after section 4.2 of the specification and the tests.        *)

\* the attempts _request_json_with_retry makes at most on transient failures
MaxAttempts == 2

\* the current time of the acquisition
utc_now == 1

RefreshTokens == {"cached-stale-token", "configured-token"}

\* what the remote answers to one attempt: 200, a non-transient 4xx, or a
\* transient failure (429, 5xx, a network error)
Statuses == {200, 400, 429, 500}
IsTransient(status) == status \in {429, 500}

\* the remote's answers to a refresh token: it accepts or rejects it, and may
\* fail transiently on any attempt
Answers(accepts, candidate) ==
    (IF candidate \in accepts THEN {200} ELSE {400}) \cup {429, 500}

\* the JSON body of a successful refresh
RefreshedCache == TokenCache("fresh-access", 2, "rotated-token")

\* step 2: the cached access token is still valid
CacheFresh(cache) == cache.access_token # "" /\ cache.expires_at > utc_now

\* step 3: the cached refresh token first, then the configured one if different
Candidates(cache, configured) ==
    (IF cache.refresh_token # "" THEN <<cache.refresh_token>> ELSE <<>>)
    \o (IF configured # "" /\ configured # cache.refresh_token
        THEN <<configured>> ELSE <<>>)

\* _get_access_token(config, limiter), up to its first refresh request
get_access_token(cache, configured, accepts) ==
    /\ auth.pc = "idle"
    /\ LET cands == Candidates(cache, configured)
           loaded == [auth EXCEPT !.cache = cache, !.configured = configured,
                                  !.accepts = accepts]
       IN  IF CacheFresh(cache)
           THEN auth' = [loaded EXCEPT !.pc = "done", !.token = cache.access_token]
           ELSE IF cands = <<>>
           THEN auth' = [loaded EXCEPT !.pc = "done", !.error = "NoRefreshToken"]
           ELSE auth' = [loaded EXCEPT !.pc = "request", !.candidates = cands,
                                       !.ci = 1, !.tries = 0,
                                       !.calls = <<cands[1]>>]
    /\ UNCHANGED <<fs, pc, call, pre, idx, result, ret, secret, tokenBytes>>

\* the request of the current candidate has failed with error: the next
\* candidate is tried, and the last candidate's error is raised
AfterFailure(a, error) ==
    IF a.ci < Len(a.candidates)
    THEN [a EXCEPT !.ci = a.ci + 1, !.tries = 0,
                   !.calls = Append(a.calls, a.candidates[a.ci + 1])]
    ELSE [a EXCEPT !.pc = "done", !.error = error]

\* A non-transient error treated like a transient one: retried while attempts remain.
AfterResponseRetrying(a, status) ==
    IF status = 200
    THEN {[a EXCEPT !.pc = "done", !.token = RefreshedCache.access_token,
                    !.saved = Append(a.saved, RefreshedCache)]}
    ELSE IF a.tries < MaxAttempts THEN {a}
    ELSE {AfterFailure(a, "HTTPError")}

\* The first candidate's failure raised to the caller.
AfterResponseAborting(a, status) ==
    IF status = 200
    THEN {[a EXCEPT !.pc = "done", !.token = RefreshedCache.access_token,
                    !.saved = Append(a.saved, RefreshedCache)]}
    ELSE IF status = 400 THEN {[a EXCEPT !.pc = "done", !.error = "HTTPError"]}
    ELSE IF a.tries < MaxAttempts THEN {a}
    ELSE {AfterFailure(a, "TransientError"),
          [a EXCEPT !.pc = "done", !.error = "TransientError"]}

\* What follows the answer to one attempt (a.tries counts it): the states the
\* acquisition may be in.  Whether exhausted retries abort the acquisition or
\* pass to the next candidate is left open by the specification: both.
AfterResponse(a, status) ==
    IF status = 200
    THEN {[a EXCEPT !.pc = "done", !.token = RefreshedCache.access_token,
                    !.saved = Append(a.saved, RefreshedCache)]}
    ELSE IF status = 400 THEN {AfterFailure(a, "HTTPError")}
    ELSE IF a.tries < MaxAttempts THEN {a}
    ELSE {AfterFailure(a, "TransientError"),
          [a EXCEPT !.pc = "done", !.error = "TransientError"]}

\* one network attempt of _request_json_with_retry and the answer to it
request_json_with_retry(status) ==
    /\ auth.pc = "request"
    /\ status \in Answers(auth.accepts, auth.candidates[auth.ci])
    /\ LET answered ==
              [auth EXCEPT !.tries = auth.tries + 1,
                           !.responses = Append(auth.responses,
                                                [request |-> Len(auth.calls),
                                                 status |-> status])]
       IN  auth' \in AfterResponse(answered, status)
    /\ UNCHANGED <<fs, pc, call, pre, idx, result, ret, secret, tokenBytes>>

\* the caches on disk when the acquisition starts
CachesBefore ==
    {EmptyCache} \cup
    {TokenCache(access, expires, refresh) :
        access \in {"expired-token"}, expires \in {0, 2},
        refresh \in {"", "cached-stale-token"}}

InitAuth ==
    /\ fs = BaseFs
    /\ pc = "idle" /\ call = NoCall /\ pre = fs /\ idx = 0
    /\ result = "none" /\ ret = <<>>
    /\ secret = NoText /\ tokenBytes = NoBytes /\ auth = AuthIdle

NextAuth ==
    \/ \E cache \in CachesBefore, configured \in RefreshTokens \cup {""},
          accepts \in SUBSET RefreshTokens : get_access_token(cache, configured, accepts)
    \/ \E status \in Statuses : request_json_with_retry(status)

SpecAuth == InitAuth /\ [][NextAuth]_vars

-----------------------------------------------------------------------------
(* Vocabulary of the claims about write_token_store_bytes. *)

Oauth1Path == Join(StorePath, OAUTH1_TOKEN_FILENAME)
Oauth2Path == Join(StorePath, OAUTH2_TOKEN_FILENAME)

Writing == call.op = "write"
WriteDone == call.op = "write" /\ pc = "done"

\* the entry's name, separators normalized, resolves outside the target root
EscapesRoot(raw) == ~IsPrefix(StorePath, AbsJoin(StorePath, ReplaceBackslash(raw)))

EscapingMembers(b) == {i \in 1..Len(b.members) : EscapesRoot(b.members[i].filename)}
HasEscaping(b) == IsZip(b) /\ EscapingMembers(b) # {}
FirstEscaping(b) ==
    CHOOSE i \in EscapingMembers(b) : \A j \in EscapingMembers(b) : i <= j

\* the input is legacy JSON: its payload, when it parses to an object
IsLegacyObject(b) == ~IsZip(b) /\ JsonLoads(b).ok /\ IsDict(JsonLoads(b).value)
Payload == JsonLoads(call.bytes).value

\* the input holds what one side of the store needs
ProvidesFile(b, name) ==
    IF IsZip(b)
    THEN \E i \in 1..Len(b.members) :
            /\ b.members[i].filename # <<>>
            /\ ~IsDirEntry(b.members[i].filename)
            /\ Destination(b.members[i].filename, StorePath) = Join(StorePath, name)
    ELSE /\ IsLegacyObject(b)
         /\ LET v == JsonLoads(b).value IN
            IF name = OAUTH1_TOKEN_FILENAME
            THEN \/ IsDict(Get(v, "oauth1_token"))
                 \/ HasKey(v, "oauth_token") /\ HasKey(v, "oauth_token_secret")
            ELSE \/ IsDict(Get(v, "oauth2_token"))
                 \/ HasKey(v, "access_token")

-----------------------------------------------------------------------------
-----------------------------------------------------------------------------
-----------------------------------------------------------------------------
(* C8: for a JSON object that is no archive, the flat OAuth1 pair makes the *)
(* whole payload the content of oauth1_token.json and access_token makes it *)
(* the content of oauth2_token.json, nested objects notwithstanding; with   *)
(* all three keys the store is ready.                                       *)
C8_FlatRulesWin ==
    (WriteDone /\ IsLegacyObject(call.bytes)) =>
        /\ (HasKey(Payload, "oauth_token") /\ HasKey(Payload, "oauth_token_secret")) =>
              /\ IsFile(fs, Oauth1Path)
              /\ fs[Oauth1Path].data = JsonDump(Payload)
        /\ HasKey(Payload, "access_token") =>
              /\ IsFile(fs, Oauth2Path)
              /\ fs[Oauth2Path].data = JsonDump(Payload)
        /\ (/\ HasKey(Payload, "oauth_token") /\ HasKey(Payload, "oauth_token_secret")
            /\ HasKey(Payload, "access_token")) => token_store_ready(fs, StorePath)

\* a payload with the three flat keys and both nested objects was written
C8_Witness ==
    /\ WriteDone /\ IsLegacyObject(call.bytes)
    /\ DOMAIN Payload.fields = LegacyKeys
    /\ IsDict(Get(Payload, "oauth1_token")) /\ IsDict(Get(Payload, "oauth2_token"))
    /\ result = "returned"

-----------------------------------------------------------------------------
(* C9: whatever the target was before, after the call (returned or raised)  *)
(* the target is a directory and all it holds was put there by this call:   *)
(* no file has the old bytes, and every path is one the input names; for    *)
(* input that is neither an archive nor a JSON object the call returns the  *)
(* target path and the target is an empty directory.                        *)
C9_NothingSurvives ==
    WriteDone =>
        /\ IsDir(fs, StorePath)
        /\ \A q \in Below(fs, StorePath) :
              /\ fs[q].kind = "file" => fs[q].data # OldBytes
              /\ IF IsZip(call.bytes)
                 THEN \E i \in 1..Len(call.bytes.members) :
                         IsPrefix(q, Destination(call.bytes.members[i].filename, StorePath))
                 ELSE q \in {Oauth1Path, Oauth2Path}
        /\ (~IsZip(call.bytes) /\ ~IsLegacyObject(call.bytes)) =>
              /\ result = "returned" /\ ret = StorePath
              /\ Below(fs, StorePath) = {}

\* a store with a subdirectory was replaced by what an archive held before
\* the archive was rejected
C9_Witness ==
    /\ WriteDone /\ result = "ValueError"
    /\ IsDir(pre, Join(StorePath, <<"a">>))
    /\ IsFile(pre, Join(StorePath, <<"keep">>))
    /\ Below(fs, StorePath) # {}

-----------------------------------------------------------------------------
(* C10, as stated: bytes that are neither an archive nor JSON are skipped   *)
(* silently and the store directory holds after the call what it held       *)
(* before.                                                                  *)
C10_StoreUnchanged ==
    (WriteDone /\ ~IsZip(call.bytes) /\ ~JsonLoads(call.bytes).ok) =>
        /\ result = "returned"
        /\ Subtree(fs, StorePath) = Subtree(pre, StorePath)

(* C10, amended: such bytes are skipped silently (the call returns the      *)
(* target path) and the store is left an empty directory, whatever it held  *)
(* before; nothing outside it changes.                                      *)
C10_StoreEmptied ==
    (WriteDone /\ ~IsZip(call.bytes) /\ ~JsonLoads(call.bytes).ok) =>
        /\ result = "returned" /\ ret = StorePath
        /\ IsDir(fs, StorePath) /\ Below(fs, StorePath) = {}
        /\ Outside(fs, StorePath) = Outside(pre, StorePath)

\* unparsable bytes were written over a ready store
C10_Witness ==
    /\ WriteDone /\ ~IsZip(call.bytes) /\ ~JsonLoads(call.bytes).ok
    /\ token_store_ready(pre, StorePath)
    /\ result = "returned"

-----------------------------------------------------------------------------
(* Vocabulary of the claims about the round trip. *)

\* the regular files below a directory
FilesBelow(f, directory) == {q \in Below(f, directory) : f[q].kind = "file"}

\* the same relative path under the store
InStore(q) == StorePath \o SubSeq(q, Len(SourceDir) + 1, Len(q))

\* the write of the round trip has ended
RoundTripDone == WriteDone /\ secret # NoText /\ call.bytes = tokenBytes

\* every file of the source is in the store, with the same bytes
AllFilesCopied ==
    \A q \in FilesBelow(fs, SourceDir) :
        IsFile(fs, InStore(q)) /\ fs[InStore(q)].data = fs[q].data

\* some file name of the source holds a backslash
BackslashInSource ==
    \E q \in FilesBelow(fs, SourceDir) : \E i \in 1..Len(q) : Contains(q[i], <<BSLASH>>)

(* C2, as stated: the round trip of a ready directory into a fresh path     *)
(* returns, the store is ready, and every file of the directory is in the   *)
(* store under the same relative path with the same bytes.                  *)
C2_RoundTripAnyReadyDir ==
    (RoundTripDone /\ token_store_ready(fs, SourceDir)) =>
        /\ result = "returned"
        /\ token_store_ready(fs, StorePath)
        /\ AllFilesCopied

(* C2, amended: the same for a ready directory none of whose file names     *)
(* holds a backslash.                                                       *)
C2_RoundTripNoBackslash ==
    (RoundTripDone /\ token_store_ready(fs, SourceDir) /\ ~BackslashInSource) =>
        /\ result = "returned" /\ ret = StorePath
        /\ token_store_ready(fs, StorePath)
        /\ AllFilesCopied
        /\ Subtree(fs, SourceDir) = Subtree(pre, SourceDir)

\* a ready directory with a file in a subdirectory went through the round trip
C2_Witness ==
    /\ RoundTripDone /\ token_store_ready(fs, SourceDir) /\ ~BackslashInSource
    /\ IsFile(fs, Join(Join(SourceDir, SubDirName), <<"x">>))
    /\ ~Exists(pre, StorePath)
    /\ result = "returned"

-----------------------------------------------------------------------------
(* C7: encoding a directory that holds no files fails with the              *)
(* empty-archive error instead of returning a value.                        *)
C7_EmptyDirectoryFails ==
    (call.op = "encode" /\ FilesBelow(pre, SourceDir) = {}) =>
        /\ result = "RuntimeError"
        /\ secret = NoText

-----------------------------------------------------------------------------
(* Vocabulary of the claims about hydrate_token_store_from_legacy_file. *)

HydrateDone == call.op = "hydrate" /\ pc = "done"

\* the legacy file held a JSON object when the call started
LegacyIsObject ==
    /\ IsFile(pre, call.path)
    /\ JsonLoadFile(pre, call.path).ok
    /\ IsDict(JsonLoadFile(pre, call.path).value)
LegacyPayload == JsonLoadFile(pre, call.path).value

BothNested ==
    /\ LegacyIsObject
    /\ IsDict(Get(LegacyPayload, "oauth1_token"))
    /\ IsDict(Get(LegacyPayload, "oauth2_token"))

\* the directory exists and neither token path in it is a directory
DirectoryUsable ==
    /\ IsDir(pre, call.dir)
    /\ ~IsDir(pre, Join(call.dir, OAUTH1_TOKEN_FILENAME))
    /\ ~IsDir(pre, Join(call.dir, OAUTH2_TOKEN_FILENAME))

HydratedBoth ==
    /\ result = "returned"
    /\ token_store_ready(fs, call.dir)
    /\ fs[Join(call.dir, OAUTH1_TOKEN_FILENAME)].data = JsonDump(Get(LegacyPayload, "oauth1_token"))
    /\ fs[Join(call.dir, OAUTH2_TOKEN_FILENAME)].data = JsonDump(Get(LegacyPayload, "oauth2_token"))

HydrateNoOp == result = "returned" /\ fs = pre

(* C5, as stated: a legacy file holding an object with object-valued        *)
(* oauth1_token and oauth2_token leaves both token files written and the    *)
(* directory ready; a legacy file that is missing, unreadable, not JSON or  *)
(* not an object makes the call a no-op.                                    *)
C5_HydrateAnyDirectory ==
    HydrateDone =>
        /\ BothNested => HydratedBoth
        /\ ~LegacyIsObject => HydrateNoOp

(* C5, amended: the first half holds when the directory exists and neither  *)
(* token path in it is a directory; the no-op half holds as stated.         *)
C5_HydrateUsableDirectory ==
    HydrateDone =>
        /\ (BothNested /\ DirectoryUsable) =>
              /\ HydratedBoth
              /\ \A q \in DOMAIN pre :
                    q \notin {Join(call.dir, OAUTH1_TOKEN_FILENAME),
                              Join(call.dir, OAUTH2_TOKEN_FILENAME)} =>
                        q \in DOMAIN fs /\ fs[q] = pre[q]
        /\ ~LegacyIsObject => HydrateNoOp

\* the legacy file of the test was hydrated into the directory that holds it
C5_Witness ==
    /\ HydrateDone /\ BothNested /\ DirectoryUsable
    /\ call.dir = WorkDir
    /\ ~token_store_ready(pre, call.dir)
    /\ token_store_ready(fs, call.dir)

-----------------------------------------------------------------------------
(* Vocabulary of the claims about the token acquisition. *)

AuthDone == auth.pc = "done"
NoTransient == \A i \in 1..Len(auth.responses) : ~IsTransient(auth.responses[i].status)

\* the scenario of the fallback test: a stale cache whose refresh token the
\* remote rejects, a different configured token that it accepts
FallbackScenario ==
    /\ ~CacheFresh(auth.cache)
    /\ auth.cache.refresh_token # ""
    /\ auth.configured # "" /\ auth.configured # auth.cache.refresh_token
    /\ auth.cache.refresh_token \notin auth.accepts
    /\ auth.configured \in auth.accepts

(* C3: in the fallback scenario, transient failures apart, the requests are *)
(* issued for the cached token and then for the configured one, the access  *)
(* token of the successful answer is returned, and one cache is saved whose *)
(* refresh_token is the rotated one.                                        *)
C3_FallbackToConfigured ==
    (AuthDone /\ FallbackScenario /\ NoTransient) =>
        /\ auth.calls = <<auth.cache.refresh_token, auth.configured>>
        /\ auth.responses = <<[request |-> 1, status |-> 400],
                              [request |-> 2, status |-> 200]>>
        /\ auth.error = ""
        /\ auth.token = "fresh-access"
        /\ Len(auth.saved) = 1
        /\ auth.saved[1].refresh_token = "rotated-token"

\* the acquisition of the test has ended
C3_Witness ==
    /\ AuthDone /\ FallbackScenario /\ NoTransient
    /\ auth.cache = TokenCache("expired-token", 0, "cached-stale-token")
    /\ auth.configured = "configured-token"
    /\ auth.token = "fresh-access"

(* C4: no attempt follows a non-transient error answer within the same      *)
(* request; with a single candidate whose first answer is such an error the *)
(* acquisition ends after exactly one network attempt, with the HTTP error  *)
(* and without a token or a saved cache.                                    *)
C4_NonTransientFailsFast ==
    /\ \A i \in 1..Len(auth.responses) :
          auth.responses[i].status = 400 =>
              \A j \in (i + 1)..Len(auth.responses) :
                  auth.responses[j].request # auth.responses[i].request
    /\ (/\ AuthDone /\ Len(auth.candidates) = 1
        /\ Len(auth.responses) >= 1 /\ auth.responses[1].status = 400) =>
          /\ Len(auth.responses) = 1
          /\ auth.error = "HTTPError"
          /\ auth.token = "" /\ auth.saved = <<>>

\* a single candidate was rejected on its first attempt
C4_Witness ==
    /\ AuthDone /\ Len(auth.candidates) = 1
    /\ auth.responses = <<[request |-> 1, status |-> 400]>>
    /\ auth.error = "HTTPError"

====
